---- MODULE Spec2Model ----
(***************************************************************************)
(* Model of the conveyor pipeline engine.                                  *)
(*                                                                         *)
(* This part models the step scheduler of src/unnamed/part_000 (package    *)
(* core: PipelineEngine with pipeline-level Steps): RegisterPlugin,        *)
(* CreatePipeline, ExecutePipeline, executeStepsWithDependencies, the      *)
(* per-step goroutine, executeStep, AddEventListener and emitEvent.        *)
(*                                                                         *)
(* Granularity: one action per critical section or blocking call of the    *)
(* code.  e.mu is modelled by the variable mu; every section that takes    *)
(* e.mu is guarded by mu = "free".  cacheManager.mu and stepMu protect     *)
(* single map accesses and are never held across another lock, so their    *)
(* sections are the atomic actions themselves.                             *)
(*                                                                         *)
(* The second part models the job engine of src/core/pipeline.go (the      *)
(* PipelineEngine with jobs, listener channels and eventsMu), the PUT      *)
(* handler of src/api/routes/pipeline.go and the two WebSocket handlers.   *)
(* Its operations carry the prefix Core where a name of part_000 is taken. *)
(***************************************************************************)
(* The two engines are separate values: every specification moves one of   *)
(* them and leaves the variables of the other unchanged.                   *)
(***************************************************************************)
EXTENDS Integers, Sequences, FiniteSets, Bags, TLC

\* ---------------------------------------------------------------- bounds
MaxRuns == 2          \* concurrent ExecutePipeline calls
MaxRetries == 1       \* largest Step.Retries in the input pipelines
MaxCreates == 1       \* CreatePipeline calls
MaxEventRuns == 1     \* ExecutePipeline calls in the listener specification
MaxListeners == 1     \* AddEventListener calls in the listener specification
MaxConns == 2         \* WebSocket connections over the life of the server
MaxBuffer == 1        \* capacity of a buffered listener channel
MaxClock == 2         \* last second of the clock
MaxJobs == 2          \* Job objects ever allocated
MaxCallers == 1       \* concurrent ExecutePipeline / RetryJob calls
MaxEmitters == 1      \* concurrent emitEvent calls that are followed send by send
MaxSingleRuns == 1    \* ExecutePipeline calls in the single-run specification

\* pool size of the spec's "workerPoolSize" knob (spec section 4.E / 6);
\* part_000 has no such knob
WorkerPoolSize == 2

RunIds == 1..MaxRuns

\* the plugin names that RegisterPlugin may add (manifest.Name)
PluginNames == {"build"}

\* error values of a step attempt; "nil" is success
ErrKinds == {"plugin_error", "unknown_type", "cancelled"}

\* ---------------------------------------------------------------- inputs
\* Step of part_000 (ID, Type, Status, DependsOn, Retries, Cache)
Step(id, type, deps, retries, cache) ==
    [ID |-> id, Type |-> type, Status |-> "", DependsOn |-> deps,
     Retries |-> retries, Cache |-> cache]

\* step lists that CreatePipeline accepts (it validates nothing)
ChainPipeline ==
    << Step("a", "build", {}, MaxRetries, TRUE),
       Step("b", "build", {"a"}, 0, FALSE) >>

DuplicateIdPipeline ==
    << Step("a", "build", {"b"}, 0, FALSE),
       Step("a", "build", {}, 0, FALSE),
       Step("b", "build", {}, 0, FALSE) >>

CyclicPipeline ==
    << Step("a", "build", {"b"}, 0, FALSE),
       Step("b", "build", {"a"}, 0, FALSE) >>

UnknownTypePipeline ==
    << Step("a", "deploy", {}, MaxRetries, FALSE) >>

SamplePipelines ==
    {ChainPipeline, DuplicateIdPipeline, CyclicPipeline, UnknownTypePipeline}

EventPipelines ==
    { << Step("a", "build", {}, MaxRetries, FALSE) >> }

\* two roots and a step that depends on one of them only
ForkPipeline ==
    << Step("a", "build", {}, 0, FALSE),
       Step("b", "build", {}, MaxRetries, FALSE),
       Step("c", "build", {"a"}, 0, FALSE) >>

\* a step of a type that the security plugin declares in its manifest
ScanPipeline ==
    << Step("a", "secret-scan", {}, 0, FALSE) >>

SelfDependentPipeline ==
    << Step("a", "build", {}, 0, FALSE),
       Step("b", "build", {"b"}, 0, FALSE) >>

\* a DependsOn entry that is the id of no step
UnknownDependencyPipeline ==
    << Step("a", "build", {}, 0, FALSE),
       Step("b", "build", {"a", "z"}, 0, FALSE) >>

\* the step lists of the single-run specification
SinglePipelines ==
    {ForkPipeline, ScanPipeline, SelfDependentPipeline,
     UnknownDependencyPipeline, CyclicPipeline, DuplicateIdPipeline}

\* the manifest of the security plugin: Name and StepTypes
SecurityPlugin == "security"

\* PluginManifest.StepTypes of the plugin registered under the given name;
\* a plugin other than the security plugin is named after its one step type
StepTypes(name) ==
    IF name = SecurityPlugin
    THEN {"vulnerability-scan", "secret-scan", "license-scan"}
    ELSE {name}

\* ----------------------------------------------------------------- state
VARIABLES
    pipelines,      \* e.pipelines: pipeline id -> [Steps, Status]
    plugins,        \* DOMAIN of e.plugins: the registered manifest names
    mu,             \* e.mu: "free" or "locked"
    cache,          \* DOMAIN of e.cacheManager.cache: the cache keys
    eventListeners, \* e.eventListeners: the registered listeners
    runs,           \* one record per ExecutePipeline call
    emitted,        \* the events passed to emitEvent so far, with their number
    pending,        \* listener goroutines started by emitEvent, not yet run
    seen,           \* per listener, the events in the order it was called
    creates         \* number of CreatePipeline calls so far

\* the variables of the engine of part_000
schedVars == << pipelines, plugins, mu, cache, eventListeners, runs, emitted,
                pending, seen, creates >>

\* the engine of core/pipeline.go and its callers
VARIABLES
    cpipelines,     \* pe.pipelines: pipeline id -> Pipeline
    jobs,           \* pe.jobs: job id -> the Job object the map points to
    jobObjs,        \* the Job objects: object -> Job
    listeners,      \* pe.eventListeners: listener id -> channel
    conns,          \* the WebSocket handlers, each with its channel
    now,            \* the clock, in seconds (time.Now().Unix())
    sent,           \* the events the last step passed to emitEvent
    ret,            \* what the last step returned to a caller of the engine
    calls,          \* the ExecutePipeline and RetryJob calls
    upd,            \* the PUT handler
    held,           \* the copy of a Job that a client made after GetJob
    emits           \* the emitEvent calls that are inside their loop

\* the callers' side, which neither the store's operations nor the
\* WebSocket handlers touch
clientVars == << held, emits >>

coreVars == << cpipelines, jobs, jobObjs, listeners, conns, now, sent, ret,
               calls, upd, clientVars >>

vars == << schedVars, coreVars >>

\* ------------------------------------------- core/pipeline.go: the values
ConnIds == 1..MaxConns
Callers == 1..MaxCallers

\* time.Sleep(2 * time.Second) of the job goroutine
SleepSeconds == 2

\* the zero time.Time
ZeroTime == -1

\* fmt.Sprintf("job-%d", unix): the prefix and the number
JobID(unix) == << "job", unix >>

\* the empty JobID of an Event, the absent retryOf of a Job
NoJob == << >>

JobIDs == {JobID(t) : t \in 0..MaxClock}

\* core.Step, core.Stage and core.Pipeline: the fields the engine touches and
\* the ones that carry the dependency graph
CoreStep(id, deps) == [ID |-> id, DependsOn |-> deps]

Stage(id, needs, steps) == [ID |-> id, Needs |-> needs, Steps |-> steps]

Pipeline(id, name, stages) ==
    [ID |-> id, Name |-> name, Stages |-> stages, CreatedAt |-> ZeroTime,
     UpdatedAt |-> ZeroTime]

\* request bodies of POST and PUT: two stages in a chain,
ChainRequest ==
    Pipeline("p", "chain", << Stage("build", {}, << CoreStep("a", {}) >>),
                              Stage("test", {"build"}, << CoreStep("b", {"a"}) >>) >>)

\* a stage that needs a stage nobody declares and a step that depends on itself,
DanglingRequest ==
    Pipeline("q", "dangling",
             << Stage("build", {"deploy"}, << CoreStep("a", {"a"}) >>) >>)

\* and a body without an id
NoIdRequest == Pipeline("", "unnamed", << >>)

Requests == {ChainRequest, DanglingRequest, NoIdRequest}

PipelineIds == {"p", "q"}

\* core.Job: Metadata holds at most the key retryOf
Job(id, pl, status, started, retryOf) ==
    [ID |-> id, PipelineID |-> pl, Status |-> status, StartedAt |-> started,
     EndedAt |-> ZeroTime, Metadata |-> [retryOf |-> retryOf]]

\* Event.Data of the job engine: the keys its events carry, "" and NoJob
\* for a key that is absent
CoreData(name, status, retryOf) ==
    [name |-> name, status |-> status, retryOf |-> retryOf]

NoCoreData == CoreData("", "", NoJob)

\* core.Event of core/pipeline.go, stamped with the clock
CoreEvent(type, pl, job, step, data) ==
    [Type |-> type, Timestamp |-> now, PipelineID |-> pl, JobID |-> job,
     StepID |-> step, Data |-> data]

\* what a step hands back to the caller of the engine: the method and its
\* error; NoRet for a step that returns from no engine method
Ret(op, err) == [op |-> op, err |-> err]

NoRet == Ret("none", "nil")

\* a call that is between its existence check and its registration
IdleCall == [pc |-> "idle", op |-> "none", pl |-> "", job |-> NoJob]

\* the PUT handler before the request arrives
IdleUpdate ==
    [pc |-> "idle", body |-> NoIdRequest, existing |-> ZeroTime, err |-> "nil"]

\* a connection slot before the client connects.  q is the channel's buffer,
\* closed the channel's closed flag, writer the position of the goroutine
\* that receives from the channel and cur the event it is writing
IdleConn ==
    [pc |-> "idle", kind |-> "none", id |-> "", cap |-> 0, q |-> << >>,
     closed |-> FALSE, writer |-> "none", cur |-> << >>]

Emitters == 1..MaxEmitters

\* an emitEvent call outside its loop; inside, event holds the event and
\* todo the channels of the range that are still to come
IdleEmit == [pc |-> "idle", event |-> << >>, todo |-> {}]

\* NewPipelineEngine of core/pipeline.go; no request has arrived
CoreInit ==
    /\ cpipelines = << >>
    /\ jobs = << >>
    /\ jobObjs = << >>
    /\ listeners = << >>
    /\ conns = [c \in ConnIds |-> IdleConn]
    /\ now = 0
    /\ sent = << >>
    /\ ret = NoRet
    /\ calls = [k \in Callers |-> IdleCall]
    /\ upd = IdleUpdate
    /\ held = << >>
    /\ emits = [e \in Emitters |-> IdleEmit]

\* the id of the pipeline the store holds initially
FirstPipeline == 1

\* a pipeline id that is never stored
MissingPipeline == 0

NoRun ==
    [pc |-> "none", pl |-> MissingPipeline, graph |-> << >>, ready |-> {},
     remaining |-> 0, stepResults |-> << >>, err |-> "unset",
     cancelled |-> FALSE, gor |-> << >>, status |-> ""]

\* Pipeline as CreatePipeline builds it
NewPipeline(steps) == [Steps |-> steps, Status |-> "idle"]

\* NewPipelineEngine, with one pipeline in the store and e.mu free.
\* CreatePipeline itself never releases e.mu (see CreatePipeline below), so
\* the scheduler is entered only on an engine whose store was filled by
\* package code; the pipeline is drawn from the given input set.
InitWith(inputs) ==
    /\ \E steps \in inputs :
          pipelines = (FirstPipeline :> NewPipeline(steps))
    /\ plugins = {}
    /\ mu = "free"
    /\ cache = {}
    /\ eventListeners = {}
    /\ runs = [r \in RunIds |-> NoRun]
    /\ emitted = EmptyBag
    /\ pending = {}
    /\ seen = [l \in 1..MaxListeners |-> << >>]
    /\ creates = 0

Init == InitWith(SamplePipelines) /\ CoreInit

\* ------------------------------------------------------- helper functions
\* buildDependencyGraph: the last step with an id decides the id's entry
buildDependencyGraph(steps) ==
    LET ids == {steps[i].ID : i \in 1..Len(steps)}
        last(id) == CHOOSE i \in 1..Len(steps) :
                       /\ steps[i].ID = id
                       /\ \A j \in 1..Len(steps) : steps[j].ID = id => j <= i
    IN [id \in ids |-> steps[last(id)].DependsOn]

\* findRootsInGraph
findRootsInGraph(graph) == {id \in DOMAIN graph : graph[id] = {}}

\* findNewReadySteps
findNewReadySteps(graph, results) ==
    {id \in DOMAIN graph :
        \A dep \in graph[id] : dep \in DOMAIN results /\ results[dep] = "nil"}

\* the goroutine's search loop: the first step with the id (0: step == nil)
FindStep(steps, id) ==
    IF \E i \in 1..Len(steps) : steps[i].ID = id
    THEN CHOOSE i \in 1..Len(steps) :
            /\ steps[i].ID = id
            /\ \A j \in 1..Len(steps) : steps[j].ID = id => i <= j
    ELSE 0

\* cacheKey := fmt.Sprintf("%s:%s", pipeline.ID, step.ID)
CacheKey(pl, id) == << pl, id >>

\* graph without the given ids (delete(dependencyGraph, id) for id in ready)
RemoveIds(graph, ids) == [id \in (DOMAIN graph) \ ids |-> graph[id]]

\* the map m with m[k] = v
Put(m, k, v) == [x \in (DOMAIN m) \cup {k} |-> IF x = k THEN v ELSE m[x]]

\* Event of part_000; run is not a field of the code's Event, it records
\* the ExecutePipeline call that emitted the event
Event(type, pl, step, data, run) ==
    [Type |-> type, Pipeline |-> pl, Step |-> step, Data |-> data, run |-> run]

\* Event.Data: the fields the scheduler's events carry
Data(status, error, retriesLeft) ==
    [status |-> status, error |-> error, retriesLeft |-> retriesLeft]

NoData == Data("", "", 0)

\* emitEvent: snapshot of the listeners, one `go listener(event)` each
Emit(ev) ==
    /\ emitted' = emitted (+) SetToBag({ev})
    /\ pending' = pending \cup {[listener |-> l, event |-> ev] : l \in eventListeners}

\* ---------------------------------------------------------------- facade
\* RegisterPlugin: e.plugins[manifest.Name] = p under e.mu
RegisterPlugin(name) ==
    /\ mu = "free"
    /\ name \notin plugins
    /\ plugins' = plugins \cup {name}
    /\ UNCHANGED << coreVars, pipelines, mu, cache, eventListeners, runs, emitted,
                    pending, seen, creates >>

\* CreatePipeline: takes e.mu.Lock, stores the pipeline, then calls
\* emitEvent, whose e.mu.RLock waits for the write lock the caller itself
\* holds: the call stops there, the lock stays taken, no event is emitted.
\* The id is "pl-<UnixNano>", taken to be fresh.
CreatePipeline(steps) ==
    /\ mu = "free"
    /\ creates < MaxCreates
    /\ pipelines' = Put(pipelines, FirstPipeline + creates + 1, NewPipeline(steps))
    /\ mu' = "locked"
    /\ creates' = creates + 1
    /\ UNCHANGED << coreVars, plugins, cache, eventListeners, runs, emitted, pending, seen >>

\* AddEventListener: append under e.mu
AddEventListener ==
    /\ mu = "free"
    /\ Cardinality(eventListeners) < MaxListeners
    /\ eventListeners' = eventListeners \cup {Cardinality(eventListeners) + 1}
    /\ UNCHANGED << coreVars, pipelines, plugins, mu, cache, runs, emitted, pending,
                    seen, creates >>

\* one goroutine `go listener(event)` started by emitEvent runs
Deliver(p) ==
    /\ p \in pending
    /\ pending' = pending \ {p}
    /\ seen' = [seen EXCEPT ![p.listener] = Append(@, p.event)]
    /\ UNCHANGED << coreVars, pipelines, plugins, mu, cache, eventListeners, runs,
                    emitted, creates >>

\* ------------------------------------------------------- ExecutePipeline
\* the caller's ctx is cancelled while the call is in progress
Cancel(r) ==
    /\ runs[r].pc \notin {"none", "done"}
    /\ ~runs[r].cancelled
    /\ runs' = [runs EXCEPT ![r].cancelled = TRUE]
    /\ UNCHANGED << coreVars, pipelines, plugins, mu, cache, eventListeners, emitted,
                    pending, seen, creates >>

\* ExecutePipeline, lines 149-153: GetPipeline(id) under e.mu.RLock
ExecutePipeline(r, id, limit) ==
    /\ r <= limit
    /\ runs[r].pc = "none"
    /\ \A q \in RunIds : q < r => runs[q].pc # "none"
    /\ mu = "free"
    /\ IF id \in DOMAIN pipelines
       THEN runs' = [runs EXCEPT ![r].pc = "begin", ![r].pl = id]
       ELSE runs' = [runs EXCEPT ![r].pc = "done", ![r].err = "not_found"]
    /\ UNCHANGED << coreVars, pipelines, plugins, mu, cache, eventListeners, emitted,
                    pending, seen, creates >>

\* ExecutePipeline, lines 155-176 and 202-211: status "running",
\* PIPELINE_STARTED, the dependency graph, the roots, the loop test
BeginRun(r) ==
    LET pl == runs[r].pl
        steps == pipelines[pl].Steps
        graph == buildDependencyGraph(steps)
    IN /\ runs[r].pc = "begin"
       /\ mu = "free"
       /\ pipelines' = [pipelines EXCEPT ![pl].Status = "running"]
       /\ Emit(Event("PIPELINE_STARTED", pl, "", NoData, r))
       /\ runs' = [runs EXCEPT
             ![r].graph = graph,
             ![r].ready = findRootsInGraph(graph),
             ![r].remaining = Len(steps),
             ![r].err = IF Len(steps) > 0 THEN "unset" ELSE "nil",
             ![r].pc = IF Len(steps) > 0 THEN "loop" ELSE "finish"]
       /\ UNCHANGED << coreVars, plugins, mu, cache, eventListeners, seen, creates >>

\* the state of a step goroutine at `go func(id string)`
NewGoroutine ==
    [pc |-> "lookup", idx |-> 0, hasCached |-> FALSE, err |-> "unset",
     retries |-> 0, outcomes |-> << >>, inRetry |-> FALSE]

\* lines 213-316: one goroutine per ready id, then execWg.Wait()
SpawnWave(r) ==
    /\ runs[r].pc = "loop"
    /\ runs' = [runs EXCEPT
          ![r].gor = [id \in (DOMAIN runs[r].gor) \cup runs[r].ready |->
                         IF id \in runs[r].ready THEN NewGoroutine
                         ELSE runs[r].gor[id]],
          ![r].pc = "wait"]
    /\ UNCHANGED << coreVars, pipelines, plugins, mu, cache, eventListeners, emitted,
                    pending, seen, creates >>

\* lines 318-342 without the test for remaining steps of which none is ready
WaveDoneNoCycleCheck(r) ==
    LET run == runs[r]
        graph == RemoveIds(run.graph, run.ready)
        remaining == run.remaining - Cardinality(run.ready)
        ready == findNewReadySteps(graph, run.stepResults)
        errors == {run.stepResults[id] : id \in DOMAIN run.stepResults} \ {"nil"}
    IN /\ run.pc = "wait"
       /\ \A id \in run.ready : run.gor[id].pc = "done"
       /\ \E e \in (IF remaining > 0 THEN {"unset"}
                    ELSE IF errors # {} THEN errors ELSE {"nil"}) :
             runs' = [runs EXCEPT
                ![r].graph = graph,
                ![r].remaining = remaining,
                ![r].ready = ready,
                ![r].err = e,
                ![r].pc = IF e = "unset" THEN "loop" ELSE "finish"]
       /\ UNCHANGED << coreVars, pipelines, plugins, mu, cache, eventListeners, emitted,
                       pending, seen, creates >>

\* lines 318-342 without delete(dependencyGraph, id) for the wave's ids
WaveDoneKeepsDispatched(r) ==
    LET run == runs[r]
        graph == run.graph
        remaining == run.remaining - Cardinality(run.ready)
        ready == findNewReadySteps(graph, run.stepResults)
        errors == {run.stepResults[id] : id \in DOMAIN run.stepResults} \ {"nil"}
    IN /\ run.pc = "wait"
       /\ \A id \in run.ready : run.gor[id].pc = "done"
       /\ \E e \in (IF remaining > 0 /\ ready = {} THEN {"circular"}
                    ELSE IF remaining > 0 THEN {"unset"}
                    ELSE IF errors # {} THEN errors ELSE {"nil"}) :
             runs' = [runs EXCEPT
                ![r].graph = graph,
                ![r].remaining = remaining,
                ![r].ready = ready,
                ![r].err = e,
                ![r].pc = IF e = "unset" THEN "loop" ELSE "finish"]
       /\ UNCHANGED << coreVars, pipelines, plugins, mu, cache, eventListeners, emitted,
                       pending, seen, creates >>

\* lines 318-342: execWg.Wait() returns, the wave's ids leave the graph,
\* the next ready set is computed, the loop ends or goes on
WaveDone(r) ==
    LET run == runs[r]
        graph == RemoveIds(run.graph, run.ready)
        remaining == run.remaining - Cardinality(run.ready)
        ready == findNewReadySteps(graph, run.stepResults)
        errors == {run.stepResults[id] : id \in DOMAIN run.stepResults} \ {"nil"}
    IN /\ run.pc = "wait"
       /\ \A id \in run.ready : run.gor[id].pc = "done"
       /\ \E e \in (IF remaining > 0 /\ ready = {} THEN {"circular"}
                    ELSE IF remaining > 0 THEN {"unset"}
                    ELSE IF errors # {} THEN errors ELSE {"nil"}) :
             runs' = [runs EXCEPT
                ![r].graph = graph,
                ![r].remaining = remaining,
                ![r].ready = ready,
                ![r].err = e,
                ![r].pc = IF e = "unset" THEN "loop" ELSE "finish"]
       /\ UNCHANGED << coreVars, pipelines, plugins, mu, cache, eventListeners, emitted,
                       pending, seen, creates >>

\* ExecutePipeline, lines 178-198: the pipeline status, PIPELINE_COMPLETED
FinishRun(r) ==
    LET pl == runs[r].pl
        status == IF runs[r].err # "nil" THEN "failed" ELSE "success"
    IN /\ runs[r].pc = "finish"
       /\ mu = "free"
       /\ pipelines' = [pipelines EXCEPT ![pl].Status = status]
       /\ Emit(Event("PIPELINE_COMPLETED", pl, "",
                     Data(status, runs[r].err, 0), r))
       /\ runs' = [runs EXCEPT ![r].pc = "done", ![r].status = status]
       /\ UNCHANGED << coreVars, plugins, mu, cache, eventListeners, seen, creates >>

\* ------------------------------------------------------ step goroutines
\* the step the goroutine of run r works on
StepOf(r, id) == pipelines[runs[r].pl].Steps[runs[r].gor[id].idx]

\* lines 219-239: the step is searched, the cache is read
Lookup(r, id) ==
    LET run == runs[r]
        idx == FindStep(pipelines[run.pl].Steps, id)
    IN /\ id \in DOMAIN run.gor
       /\ run.gor[id].pc = "lookup"
       /\ IF idx = 0
          THEN runs' = [runs EXCEPT
                  ![r].stepResults = Put(@, id, "step_not_found"),
                  ![r].gor[id].pc = "done"]
          ELSE runs' = [runs EXCEPT
                  ![r].gor[id].idx = idx,
                  ![r].gor[id].hasCached = CacheKey(run.pl, id) \in cache,
                  ![r].gor[id].retries = pipelines[run.pl].Steps[idx].Retries,
                  ![r].gor[id].pc = "markRunning"]
       /\ UNCHANGED << coreVars, pipelines, plugins, mu, cache, eventListeners, emitted,
                       pending, seen, creates >>

\* lines 241-260: status "running", STEP_STARTED, the cached result is
\* taken when the step has a cache configuration and the key was found
MarkRunning(r, id) ==
    LET run == runs[r]
        g == run.gor[id]
        step == StepOf(r, id)
        hit == step.Cache /\ g.hasCached
    IN /\ id \in DOMAIN run.gor
       /\ g.pc = "markRunning"
       /\ mu = "free"
       /\ pipelines' = [pipelines EXCEPT ![run.pl].Steps[g.idx].Status = "running"]
       /\ Emit(Event("STEP_STARTED", run.pl, id, NoData, r))
       /\ runs' = [runs EXCEPT
             ![r].gor[id].err = IF hit THEN "nil" ELSE "unset",
             ![r].gor[id].pc = IF hit THEN "complete" ELSE "exec"]
       /\ UNCHANGED << coreVars, plugins, mu, cache, eventListeners, seen, creates >>

\* a retry loop that runs once more than line 274 allows
ShouldRetryOffByOne(err, retries) == err # "nil" /\ retries >= 0

\* the retry loop's condition, line 274: err != nil && retries > 0
ShouldRetry(err, retries) == err # "nil" /\ retries > 0

\* an attempt (executeStep) has returned err: lines 262-270 for the first
\* attempt (the result is cached when the step has a cache configuration
\* and err is nil), lines 287-288 for an attempt of the retry loop
AttemptReturns(r, id, err) ==
    LET run == runs[r]
        g == run.gor[id]
        step == StepOf(r, id)
        left == IF g.inRetry THEN g.retries - 1 ELSE g.retries
    IN /\ runs' = [runs EXCEPT
             ![r].gor[id].err = err,
             ![r].gor[id].outcomes = Append(@, err),
             ![r].gor[id].retries = left,
             ![r].gor[id].pc = IF ShouldRetry(err, left) THEN "emitRetry"
                               ELSE "complete"]
       /\ cache' = IF ~g.inRetry /\ step.Cache /\ err = "nil"
                   THEN cache \cup {CacheKey(run.pl, id)}
                   ELSE cache

\* executeStep, lines 346-354: the plugin is looked up under e.mu.RLock by
\* step.Type; without one the attempt ends with "unknown step type"
ExecuteStep(r, id) ==
    LET run == runs[r]
        g == run.gor[id]
    IN /\ id \in DOMAIN run.gor
       /\ g.pc = "exec"
       /\ mu = "free"
       /\ IF StepOf(r, id).Type \in plugins
          THEN /\ runs' = [runs EXCEPT ![r].gor[id].pc = "plugin"]
               /\ UNCHANGED cache
          ELSE AttemptReturns(r, id, "unknown_type")
       /\ UNCHANGED << coreVars, pipelines, plugins, mu, eventListeners, emitted,
                       pending, seen, creates >>

\* what plugin.Execute(ctx, step) may return: the plugin is outside the
\* engine; it may report the cancellation of ctx once ctx is cancelled
PluginResults(r) ==
    {"nil", "plugin_error"} \cup (IF runs[r].cancelled THEN {"cancelled"} ELSE {})

\* executeStep, line 357: plugin.Execute returns
PluginReturns(r, id) ==
    /\ id \in DOMAIN runs[r].gor
    /\ runs[r].gor[id].pc = "plugin"
    /\ \E err \in PluginResults(r) : AttemptReturns(r, id, err)
    /\ UNCHANGED << coreVars, pipelines, plugins, mu, eventListeners, emitted,
                    pending, seen, creates >>

\* lines 275-286: STEP_RETRY, then the next attempt
EmitRetry(r, id) ==
    LET run == runs[r]
        g == run.gor[id]
    IN /\ id \in DOMAIN run.gor
       /\ g.pc = "emitRetry"
       /\ mu = "free"
       /\ Emit(Event("STEP_RETRY", run.pl, id, Data("", g.err, g.retries), r))
       /\ runs' = [runs EXCEPT ![r].gor[id].inRetry = TRUE,
                               ![r].gor[id].pc = "exec"]
       /\ UNCHANGED << coreVars, pipelines, plugins, mu, cache, eventListeners, seen,
                       creates >>

\* lines 291-313 with STEP_COMPLETED emitted for a successful step only
CompleteSilentOnFailure(r, id) ==
    LET run == runs[r]
        g == run.gor[id]
        status == IF g.err # "nil" THEN "failed" ELSE "success"
    IN /\ id \in DOMAIN run.gor
       /\ g.pc = "complete"
       /\ mu = "free"
       /\ pipelines' = [pipelines EXCEPT ![run.pl].Steps[g.idx].Status = status]
       /\ IF g.err # "nil"
          THEN UNCHANGED << emitted, pending >>
          ELSE Emit(Event("STEP_COMPLETED", run.pl, id, Data(status, g.err, 0), r))
       /\ runs' = [runs EXCEPT
             ![r].stepResults = Put(@, id, g.err),
             ![r].gor[id].pc = "done"]
       /\ UNCHANGED << coreVars, plugins, mu, cache, eventListeners, seen, creates >>

\* lines 291-313: the step's final status, stepResults[id], STEP_COMPLETED
Complete(r, id) ==
    LET run == runs[r]
        g == run.gor[id]
        status == IF g.err # "nil" THEN "failed" ELSE "success"
    IN /\ id \in DOMAIN run.gor
       /\ g.pc = "complete"
       /\ mu = "free"
       /\ pipelines' = [pipelines EXCEPT ![run.pl].Steps[g.idx].Status = status]
       /\ Emit(Event("STEP_COMPLETED", run.pl, id, Data(status, g.err, 0), r))
       /\ runs' = [runs EXCEPT
             ![r].stepResults = Put(@, id, g.err),
             ![r].gor[id].pc = "done"]
       /\ UNCHANGED << coreVars, plugins, mu, cache, eventListeners, seen, creates >>

\* --------------------------------------------------------- specifications
StepIds == {"a", "b", "c"}

Scheduler(limit) ==
    \/ \E r \in RunIds, id \in {FirstPipeline, MissingPipeline} :
          ExecutePipeline(r, id, limit)
    \/ \E r \in RunIds : BeginRun(r)
    \/ \E r \in RunIds : SpawnWave(r)
    \/ \E r \in RunIds : WaveDone(r)
    \/ \E r \in RunIds : FinishRun(r)
    \/ \E r \in RunIds : Cancel(r)
    \/ \E r \in RunIds, id \in StepIds : Lookup(r, id)
    \/ \E r \in RunIds, id \in StepIds : MarkRunning(r, id)
    \/ \E r \in RunIds, id \in StepIds : ExecuteStep(r, id)
    \/ \E r \in RunIds, id \in StepIds : PluginReturns(r, id)
    \/ \E r \in RunIds, id \in StepIds : EmitRetry(r, id)
    \/ \E r \in RunIds, id \in StepIds : Complete(r, id)
    \/ \E name \in PluginNames : RegisterPlugin(name)

Next == Scheduler(MaxRuns)

Spec == Init /\ [][Next]_vars

\* the engine with listeners: one single-step pipeline, MaxEventRuns calls
InitEvents == InitWith(EventPipelines) /\ CoreInit

NextEvents ==
    \/ Scheduler(MaxEventRuns)
    \/ AddEventListener
    \/ \E p \in pending : Deliver(p)
    \/ \E steps \in EventPipelines : CreatePipeline(steps)

SpecEvents == InitEvents /\ [][NextEvents]_vars

\* one ExecutePipeline call at a time on step lists of every shape, with
\* the security plugin among the plugins that may be registered
InitSingle == InitWith(SinglePipelines) /\ CoreInit

NextSingle ==
    \/ Scheduler(MaxSingleRuns)
    \/ RegisterPlugin(SecurityPlugin)

SpecSingle == InitSingle /\ [][NextSingle]_vars

\* the steps of ExecutePipeline call r and of the step goroutines it
\* started; plugin.Execute returning is one of them
RunStep(r) ==
    \/ BeginRun(r)
    \/ SpawnWave(r)
    \/ WaveDone(r)
    \/ FinishRun(r)
    \/ \E id \in StepIds : Lookup(r, id)
    \/ \E id \in StepIds : MarkRunning(r, id)
    \/ \E id \in StepIds : ExecuteStep(r, id)
    \/ \E id \in StepIds : PluginReturns(r, id)
    \/ \E id \in StepIds : EmitRetry(r, id)
    \/ \E id \in StepIds : Complete(r, id)

\* the Go scheduler runs every goroutine that can run, and every plugin
\* call returns
SpecSingleFair == SpecSingle /\ \A r \in RunIds : WF_vars(RunStep(r))

\* ------------------------------------------ core/pipeline.go: listeners
\* the addresses and the clientId parameters that clients connect with
ClientIPs == {"10.0.0.1", "10.0.0.2"}

ClientIds == {"ui"}

\* the store and the engine of part_000, which the listener side leaves alone
storeVars == << cpipelines, jobs, jobObjs, now, calls, upd, clientVars, schedVars >>

\* the channels in pe.eventListeners
Registered == {listeners[id] : id \in DOMAIN listeners}

\* eventsMu.Lock() ignoring the readers
EventsMuIgnored == TRUE

\* eventsMu.Lock() can be taken: no emitEvent holds eventsMu.RLock().  The
\* sections under eventsMu.Lock() are single steps, so no writer is ever
\* seen holding it.
EventsMuFree == \A e \in Emitters : emits[e].pc = "idle"

\* RegisterEventListener: pe.eventListeners[id] = ch under eventsMu.Lock()
RegisterEventListener(id, ch) ==
    /\ EventsMuFree
    /\ listeners' = Put(listeners, id, ch)

\* UnregisterEventListener: delete(pe.eventListeners, id) under eventsMu.Lock()
UnregisterEventListener(id) ==
    /\ EventsMuFree
    /\ listeners' = RemoveIds(listeners, {id})

\* whether `case ch <- event` can proceed: room in the buffer or, for a
\* channel without buffer, a receiver blocked on it
CanSend(ch) ==
    IF ch.cap = 0 THEN ch.writer = "recv" ELSE Len(ch.q) < ch.cap

\* the select of emitEvent with the oldest queued event evicted to make room
SendEvictOldest(ch, event) ==
    IF CanSend(ch)
    THEN IF ch.cap = 0
         THEN [ch EXCEPT !.writer = "busy", !.cur = << event >>]
         ELSE [ch EXCEPT !.q = Append(@, event)]
    ELSE [ch EXCEPT !.q = IF @ = << >> THEN @ ELSE Append(Tail(@), event)]

\* the select of emitEvent on one channel: send, or the default branch
Send(ch, event) ==
    IF CanSend(ch)
    THEN IF ch.cap = 0
         THEN [ch EXCEPT !.writer = "busy", !.cur = << event >>]
         ELSE [ch EXCEPT !.q = Append(@, event)]
    ELSE ch

\* emitEvent: one select per registered channel, under eventsMu.RLock.  The
\* channels are distinct, so the order of the map iteration does not show.
emitEvent(event) ==
    /\ conns' = [c \in ConnIds |->
                    IF c \in Registered THEN Send(conns[c], event) ELSE conns[c]]
    /\ sent' = << event >>

\* a step that calls no emitEvent
NoEmit ==
    /\ conns' = conns
    /\ sent' = << >>

\* handleWebSocket of the routes: a buffered channel registered under the
\* client's address, and the goroutine that ranges over it
handleWebSocket(c, ip) ==
    /\ conns[c].pc = "idle"
    /\ RegisterEventListener(ip, c)
    /\ conns' = [conns EXCEPT ![c] =
                    [pc |-> "open", kind |-> "routes", id |-> ip,
                     cap |-> MaxBuffer, q |-> << >>, closed |-> FALSE,
                     writer |-> "busy", cur |-> << >>]]
    /\ sent' = << >>
    /\ ret' = NoRet
    /\ UNCHANGED storeVars

\* handleWebSocket of api/server.go: a channel without buffer registered
\* under the clientId; the handler itself receives in its select loop
ServerHandleWebSocket(c, clientID) ==
    /\ conns[c].pc = "idle"
    /\ RegisterEventListener(clientID, c)
    /\ conns' = [conns EXCEPT ![c] =
                    [pc |-> "open", kind |-> "server", id |-> clientID,
                     cap |-> 0, q |-> << >>, closed |-> FALSE,
                     writer |-> "busy", cur |-> << >>]]
    /\ sent' = << >>
    /\ ret' = NoRet
    /\ UNCHANGED storeVars

\* the handler returns (ReadMessage failed, or the context was cancelled):
\* the deferred UnregisterEventListener runs.  The select loop of server.go
\* ends with its handler; the goroutine of the routes handler lives on.
Disconnect(c) ==
    /\ conns[c].pc = "open"
    /\ UnregisterEventListener(conns[c].id)
    /\ conns' = [conns EXCEPT
                    ![c].pc = "closed",
                    ![c].writer = IF conns[c].kind = "server" THEN "exited" ELSE @,
                    ![c].cur = IF conns[c].kind = "server" THEN << >> ELSE @]
    /\ sent' = << >>
    /\ ret' = NoRet
    /\ UNCHANGED storeVars

\* the receiver reaches its receive: `range eventCh`, `case event := <-events`
Wait(c) ==
    /\ conns[c].writer = "busy"
    /\ conns[c].cur = << >>
    /\ conns' = [conns EXCEPT ![c].writer = "recv"]
    /\ sent' = << >>
    /\ ret' = NoRet
    /\ UNCHANGED << listeners, storeVars >>

\* the receive from a buffered channel: the head of the buffer, or the end
\* of the range loop once the channel is closed and empty
Receive(c) ==
    /\ conns[c].writer = "recv"
    /\ conns[c].cap > 0
    /\ \/ /\ conns[c].q # << >>
          /\ conns' = [conns EXCEPT ![c].q = Tail(@),
                                    ![c].cur = << Head(conns[c].q) >>,
                                    ![c].writer = "busy"]
       \/ /\ conns[c].q = << >>
          /\ conns[c].closed
          /\ conns' = [conns EXCEPT ![c].writer = "exited"]
    /\ sent' = << >>
    /\ ret' = NoRet
    /\ UNCHANGED << listeners, storeVars >>

\* conn.WriteJSON(event) returns nil
WriteOk(c) ==
    /\ conns[c].pc = "open"
    /\ conns[c].writer = "busy"
    /\ conns[c].cur # << >>
    /\ conns' = [conns EXCEPT ![c].cur = << >>]
    /\ sent' = << >>
    /\ ret' = NoRet
    /\ UNCHANGED << listeners, storeVars >>

\* conn.WriteJSON(event) returns an error in the goroutine of the routes
\* handler: the goroutine returns
WriteFail(c) ==
    /\ conns[c].kind = "routes"
    /\ conns[c].writer = "busy"
    /\ conns[c].cur # << >>
    /\ conns' = [conns EXCEPT ![c].cur = << >>, ![c].writer = "exited"]
    /\ sent' = << >>
    /\ ret' = NoRet
    /\ UNCHANGED << listeners, storeVars >>

\* EmitStepStartedEvent
EmitStepStartedEvent(pipelineID, jobID, stepID) ==
    /\ emitEvent(CoreEvent("step.started", pipelineID, jobID, stepID, NoCoreData))
    /\ ret' = NoRet
    /\ UNCHANGED << listeners, storeVars >>

\* EmitStepCompletedEvent
EmitStepCompletedEvent(pipelineID, jobID, stepID, status) ==
    /\ emitEvent(CoreEvent("step.completed", pipelineID, jobID, stepID,
                           CoreData("", status, NoJob)))
    /\ ret' = NoRet
    /\ UNCHANGED << listeners, storeVars >>

\* EmitJobCompletedEvent
EmitJobCompletedEvent(pipelineID, jobID, status) ==
    /\ emitEvent(CoreEvent("job.completed", pipelineID, jobID, "",
                           CoreData("", status, NoJob)))
    /\ ret' = NoRet
    /\ UNCHANGED << listeners, storeVars >>

\* the listener side of the job engine: connections come and go while the
\* public emitters are called
Bus ==
    \/ \E c \in ConnIds, ip \in ClientIPs : handleWebSocket(c, ip)
    \/ \E c \in ConnIds, id \in ClientIds : ServerHandleWebSocket(c, id)
    \/ \E c \in ConnIds : Disconnect(c)
    \/ \E c \in ConnIds : Wait(c)
    \/ \E c \in ConnIds : Receive(c)
    \/ \E c \in ConnIds : WriteOk(c)
    \/ \E c \in ConnIds : WriteFail(c)
    \/ EmitStepStartedEvent("p", JobID(0), "a")
    \/ EmitStepCompletedEvent("p", JobID(0), "a", "success")
    \/ EmitJobCompletedEvent("p", JobID(0), "success")

SpecBus == InitEvents /\ [][Bus]_vars

\* ------------------------------- core/pipeline.go: emitEvent send by send
\* the rest of the engine, which an emitEvent call leaves alone
emitFrame == << cpipelines, jobs, jobObjs, listeners, now, calls, upd, held,
               schedVars >>

\* the events that the public emitters pass to emitEvent
EmitInputs == {"step.started", "job.completed"}

\* the event that EmitStepStartedEvent and EmitJobCompletedEvent build
EmitInput(type) ==
    IF type = "step.started"
    THEN CoreEvent("step.started", "p", JobID(0), "a", NoCoreData)
    ELSE CoreEvent("job.completed", "p", JobID(0), "", CoreData("", "success", NoJob))

\* emitEvent, lines 194-197: eventsMu.RLock() and the start of the range
\* over pe.eventListeners, which no writer can change before RUnlock
EmitBegin(e, event) ==
    /\ emits[e].pc = "idle"
    /\ emits' = [emits EXCEPT ![e] =
                    [pc |-> "sending", event |-> << event >>, todo |-> Registered]]
    /\ sent' = << event >>
    /\ ret' = NoRet
    /\ UNCHANGED << conns, emitFrame >>

\* emitEvent, lines 198-203: the select on one channel of the range
EmitSend(e, c) ==
    /\ emits[e].pc = "sending"
    /\ c \in emits[e].todo
    /\ conns' = [conns EXCEPT ![c] = Send(conns[c], emits[e].event[1])]
    /\ emits' = [emits EXCEPT ![e].todo = @ \ {c}]
    /\ sent' = << >>
    /\ ret' = NoRet
    /\ UNCHANGED emitFrame

\* emitEvent returns: the deferred eventsMu.RUnlock()
EmitEnd(e) ==
    /\ emits[e].pc = "sending"
    /\ emits[e].todo = {}
    /\ emits' = [emits EXCEPT ![e] = IdleEmit]
    /\ sent' = << >>
    /\ ret' = NoRet
    /\ UNCHANGED << conns, emitFrame >>

\* the listener side with emitEvent calls that run concurrently with the
\* handlers
BusEmit ==
    \/ \E c \in ConnIds, ip \in ClientIPs : handleWebSocket(c, ip)
    \/ \E c \in ConnIds, id \in ClientIds : ServerHandleWebSocket(c, id)
    \/ \E c \in ConnIds : Disconnect(c)
    \/ \E c \in ConnIds : Wait(c)
    \/ \E c \in ConnIds : Receive(c)
    \/ \E c \in ConnIds : WriteOk(c)
    \/ \E c \in ConnIds : WriteFail(c)
    \/ \E e \in Emitters, type \in EmitInputs : EmitBegin(e, EmitInput(type))
    \/ \E e \in Emitters, c \in ConnIds : EmitSend(e, c)
    \/ \E e \in Emitters : EmitEnd(e)

SpecEmit == InitEvents /\ [][BusEmit]_vars

\* ---------------------------------------------- core/pipeline.go: store
\* the listeners and the engine of part_000, which the store leaves alone
busVars == << listeners, clientVars, schedVars >>

\* CreatePipeline that stores the pipeline before it looks for the id
CreateBeforeCheck(pipeline) ==
    IF pipeline.ID = ""
    THEN /\ ret' = Ret("CreatePipeline", "required")
         /\ NoEmit
         /\ UNCHANGED cpipelines
    ELSE /\ cpipelines' = Put(cpipelines, pipeline.ID,
                              [pipeline EXCEPT !.CreatedAt = now,
                                               !.UpdatedAt = now])
         /\ IF pipeline.ID \in DOMAIN cpipelines
            THEN /\ ret' = Ret("CreatePipeline", "exists")
                 /\ NoEmit
            ELSE /\ emitEvent(CoreEvent("pipeline.created", pipeline.ID, NoJob,
                                        "", CoreData(pipeline.Name, "", NoJob)))
                 /\ ret' = Ret("CreatePipeline", "nil")

\* CreatePipeline of core/pipeline.go: the id must be set and new; the
\* engine stamps CreatedAt and UpdatedAt itself
CoreCreatePipeline(pipeline) ==
    IF pipeline.ID = ""
    THEN /\ ret' = Ret("CreatePipeline", "required")
         /\ NoEmit
         /\ UNCHANGED cpipelines
    ELSE IF pipeline.ID \in DOMAIN cpipelines
    THEN /\ ret' = Ret("CreatePipeline", "exists")
         /\ NoEmit
         /\ UNCHANGED cpipelines
    ELSE /\ cpipelines' = Put(cpipelines, pipeline.ID,
                              [pipeline EXCEPT !.CreatedAt = now,
                                               !.UpdatedAt = now])
         /\ emitEvent(CoreEvent("pipeline.created", pipeline.ID, NoJob, "",
                                CoreData(pipeline.Name, "", NoJob)))
         /\ ret' = Ret("CreatePipeline", "nil")

\* DeletePipeline
DeletePipeline(id) ==
    IF id \notin DOMAIN cpipelines
    THEN /\ ret' = Ret("DeletePipeline", "not found")
         /\ NoEmit
         /\ UNCHANGED cpipelines
    ELSE /\ cpipelines' = RemoveIds(cpipelines, {id})
         /\ emitEvent(CoreEvent("pipeline.deleted", id, NoJob, "", NoCoreData))
         /\ ret' = Ret("DeletePipeline", "nil")

\* POST /pipelines: the handler's own time stamps are overwritten by the engine
PostPipeline(body) ==
    /\ CoreCreatePipeline([body EXCEPT !.CreatedAt = now, !.UpdatedAt = now])
    /\ UNCHANGED << jobs, jobObjs, now, calls, upd, busVars >>

\* DELETE /pipelines/:id
DeleteRoute(id) ==
    /\ DeletePipeline(id)
    /\ UNCHANGED << jobs, jobObjs, now, calls, upd, busVars >>

\* the Job objects allocated or about to be
Allocated == Len(jobObjs) + Cardinality({k \in Callers : calls[k].pc = "register"})

\* ExecutePipeline up to `if !exists`: the lookup under pe.mu.RLock
CoreExecutePipeline(k, pipelineID) ==
    /\ calls[k].pc = "idle"
    /\ IF pipelineID \notin DOMAIN cpipelines
       THEN /\ ret' = Ret("ExecutePipeline", "not found")
            /\ UNCHANGED calls
       ELSE /\ Allocated < MaxJobs
            /\ ret' = NoRet
            /\ calls' = [calls EXCEPT ![k] =
                            [pc |-> "register", op |-> "ExecutePipeline",
                             pl |-> pipelineID, job |-> NoJob]]
    /\ NoEmit
    /\ UNCHANGED << cpipelines, jobs, jobObjs, now, upd, busVars >>

\* RetryJob up to the second `return fmt.Errorf`: the lookup of the job
RetryJob(k, pipelineID, jobID) ==
    /\ calls[k].pc = "idle"
    /\ IF jobID \notin DOMAIN jobs
       THEN /\ ret' = Ret("RetryJob", "not found")
            /\ UNCHANGED calls
       ELSE IF jobObjs[jobs[jobID]].job.PipelineID # pipelineID
       THEN /\ ret' = Ret("RetryJob", "not associated")
            /\ UNCHANGED calls
       ELSE /\ Allocated < MaxJobs
            /\ ret' = NoRet
            /\ calls' = [calls EXCEPT ![k] =
                            [pc |-> "register", op |-> "RetryJob",
                             pl |-> pipelineID, job |-> jobID]]
    /\ NoEmit
    /\ UNCHANGED << cpipelines, jobs, jobObjs, now, upd, busVars >>

\* the rest of ExecutePipeline and of RetryJob: the new Job named after the
\* current second, pe.jobs[job.ID] = job, job.started, and the goroutine
StartJob(k) ==
    LET call == calls[k]
        job == Job(JobID(now), call.pl, "running", now, call.job)
    IN /\ call.pc = "register"
       /\ jobObjs' = Append(jobObjs, [job |-> job, gor |-> "sleeping"])
       /\ jobs' = Put(jobs, job.ID, Len(jobObjs) + 1)
       /\ emitEvent(CoreEvent("job.started", call.pl, job.ID, "",
                              CoreData("", "", call.job)))
       /\ calls' = [calls EXCEPT ![k] = IdleCall]
       /\ ret' = Ret(call.op, "nil")
       /\ UNCHANGED << cpipelines, now, upd, busVars >>

\* the goroutine of a job after its sleep: it writes to the Job it holds
JobDone(o) ==
    LET obj == jobObjs[o]
    IN /\ obj.gor = "sleeping"
       /\ now >= obj.job.StartedAt + SleepSeconds
       /\ jobObjs' = [jobObjs EXCEPT ![o].gor = "done",
                                     ![o].job.Status = "success",
                                     ![o].job.EndedAt = now]
       /\ emitEvent(CoreEvent("job.completed", obj.job.PipelineID, obj.job.ID,
                              "", CoreData("", "success", obj.job.Metadata.retryOf)))
       /\ ret' = NoRet
       /\ UNCHANGED << cpipelines, jobs, now, calls, upd, busVars >>

\* UpdateJob: the map entry is replaced by the caller's Job
UpdateJob(job) ==
    /\ IF job.ID \notin DOMAIN jobs
       THEN /\ ret' = Ret("UpdateJob", "not found")
            /\ UNCHANGED << jobs, jobObjs >>
       ELSE /\ Allocated < MaxJobs
            /\ jobObjs' = Append(jobObjs, [job |-> job, gor |-> "none"])
            /\ jobs' = Put(jobs, job.ID, Len(jobObjs) + 1)
            /\ ret' = Ret("UpdateJob", "nil")
    /\ NoEmit
    /\ UNCHANGED << cpipelines, now, calls, upd, busVars >>

\* GetJob: the caller gets the pointer that the map holds, and reads the Job
\* through it (`updatedJob := *job` in simulateJobProgress)
GetJob(pipelineID, jobID) ==
    /\ IF jobID \notin DOMAIN jobs
       THEN /\ ret' = Ret("GetJob", "not found")
            /\ UNCHANGED held
       ELSE IF jobObjs[jobs[jobID]].job.PipelineID # pipelineID
       THEN /\ ret' = Ret("GetJob", "not associated")
            /\ UNCHANGED held
       ELSE /\ ret' = Ret("GetJob", "nil")
            /\ held' = << jobObjs[jobs[jobID]].job >>
    /\ NoEmit
    /\ UNCHANGED << cpipelines, jobs, jobObjs, now, calls, upd, listeners,
                    emits, schedVars >>

\* one progress step of simulateJobProgress after its GetJob: it goes on only
\* for a job it saw running, changes its copy, which the last step marks as
\* a success, and passes the copy to UpdateJob
simulateJobProgress(last) ==
    /\ held # << >>
    /\ held[1].Status = "running"
    /\ LET updatedJob == IF last
                         THEN [held[1] EXCEPT !.Status = "success",
                                              !.EndedAt = now]
                         ELSE held[1]
       IN /\ IF updatedJob.ID \notin DOMAIN jobs
             THEN /\ ret' = Ret("UpdateJob", "not found")
                  /\ UNCHANGED << jobs, jobObjs >>
             ELSE /\ Allocated < MaxJobs
                  /\ jobObjs' = Append(jobObjs, [job |-> updatedJob, gor |-> "none"])
                  /\ jobs' = Put(jobs, updatedJob.ID, Len(jobObjs) + 1)
                  /\ ret' = Ret("UpdateJob", "nil")
    /\ held' = << >>
    /\ NoEmit
    /\ UNCHANGED << cpipelines, now, calls, upd, listeners, emits, schedVars >>

\* the events of AddJob: job.added, then job.started for a running job and
\* job.completed for a finished one
AddJobEvents(job) ==
    << CoreEvent("job.added", job.PipelineID, job.ID, "",
                 CoreData("", job.Status, NoJob)) >>
    \o (IF job.Status = "running"
        THEN << CoreEvent("job.started", job.PipelineID, job.ID, "", NoCoreData) >>
        ELSE IF job.Status \in {"success", "failed"}
        THEN << CoreEvent("job.completed", job.PipelineID, job.ID, "",
                          CoreData("", job.Status, NoJob)) >>
        ELSE << >>)

\* the selects of consecutive emitEvent calls on one channel
RECURSIVE SendAll(_, _)
SendAll(ch, events) ==
    IF events = << >> THEN ch ELSE SendAll(Send(ch, events[1]), Tail(events))

\* AddJob: pe.jobs[job.ID] = job whatever the map holds, then the events
AddJob(job) ==
    /\ Allocated < MaxJobs
    /\ jobObjs' = Append(jobObjs, [job |-> job, gor |-> "none"])
    /\ jobs' = Put(jobs, job.ID, Len(jobObjs) + 1)
    /\ conns' = [c \in ConnIds |->
                    IF c \in Registered
                    THEN SendAll(conns[c], AddJobEvents(job))
                    ELSE conns[c]]
    /\ sent' = AddJobEvents(job)
    /\ ret' = NoRet
    /\ UNCHANGED << cpipelines, now, calls, upd, busVars >>

\* PUT /pipelines/:id up to GetPipeline, for a body whose id is the id of
\* the URL
UpdateGet(body) ==
    /\ upd.pc \in {"idle", "done"}
    /\ IF body.ID \notin DOMAIN cpipelines
       THEN upd' = [pc |-> "done", body |-> body, existing |-> ZeroTime,
                    err |-> "not found"]
       ELSE upd' = [pc |-> "delete", body |-> body,
                    existing |-> cpipelines[body.ID].CreatedAt, err |-> "nil"]
    /\ ret' = NoRet
    /\ NoEmit
    /\ UNCHANGED << cpipelines, jobs, jobObjs, now, calls, busVars >>

\* PUT: engine.DeletePipeline(id)
UpdateDelete ==
    /\ upd.pc = "delete"
    /\ DeletePipeline(upd.body.ID)
    /\ upd' = [upd EXCEPT !.pc = IF ret'.err = "nil" THEN "create" ELSE "done",
                          !.err = ret'.err]
    /\ UNCHANGED << jobs, jobObjs, now, calls, busVars >>

\* PUT: pipeline.CreatedAt = existing.CreatedAt, then engine.CreatePipeline
UpdateCreate ==
    /\ upd.pc = "create"
    /\ CoreCreatePipeline([upd.body EXCEPT !.CreatedAt = upd.existing,
                                           !.UpdatedAt = now])
    /\ upd' = [upd EXCEPT !.pc = "done", !.err = ret'.err]
    /\ UNCHANGED << jobs, jobObjs, now, calls, busVars >>

\* a second passes
Tick ==
    /\ now < MaxClock
    /\ now' = now + 1
    /\ ret' = NoRet
    /\ NoEmit
    /\ UNCHANGED << cpipelines, jobs, jobObjs, calls, upd, busVars >>

\* the Jobs that callers of UpdateJob pass
UpdateJobInputs == {Job(id, "p", "failed", 0, NoJob) : id \in JobIDs}

\* the Jobs that callers of AddJob pass: a running one and a finished one
AddJobInputs == {Job(JobID(0), "p", status, 0, NoJob) : status \in {"running", "success"}}

\* the store of the job engine behind its routes
Store ==
    \/ \E body \in Requests : PostPipeline(body)
    \/ \E id \in PipelineIds : DeleteRoute(id)
    \/ \E k \in Callers, id \in PipelineIds : CoreExecutePipeline(k, id)
    \/ \E k \in Callers, id \in PipelineIds, j \in JobIDs : RetryJob(k, id, j)
    \/ \E k \in Callers : StartJob(k)
    \/ \E o \in DOMAIN jobObjs : JobDone(o)
    \/ \E job \in UpdateJobInputs : UpdateJob(job)
    \/ \E body \in Requests \ {NoIdRequest} : UpdateGet(body)
    \/ UpdateDelete
    \/ UpdateCreate
    \/ Tick

SpecStore == InitEvents /\ [][Store]_vars

\* the job registry of the engine with the clients of cli/main.go that read
\* and replace its Jobs
JobRegistry ==
    \/ PostPipeline(ChainRequest)
    \/ \E k \in Callers : CoreExecutePipeline(k, "p")
    \/ \E k \in Callers, j \in JobIDs : RetryJob(k, "p", j)
    \/ \E k \in Callers : StartJob(k)
    \/ \E o \in DOMAIN jobObjs : JobDone(o)
    \/ \E job \in UpdateJobInputs : UpdateJob(job)
    \/ \E id \in PipelineIds, j \in JobIDs : GetJob(id, j)
    \/ \E last \in BOOLEAN : simulateJobProgress(last)
    \/ \E job \in AddJobInputs : AddJob(job)
    \/ Tick

SpecJobs == InitEvents /\ [][JobRegistry]_vars

\* ----------------------------------------------------------------- claims
\* the goroutines of all runs, as << run, step id >>
Goroutines == {<< r, id >> \in RunIds \X StepIds : id \in DOMAIN runs[r].gor}

\* the goroutines whose plugin.Execute call is in progress
InFlight == {p \in Goroutines : runs[p[1]].gor[p[2]].pc = "plugin"}

\* the ids a chain of dependsOn leads to from the ids in S
RECURSIVE DependsOnClosure(_, _, _)
DependsOnClosure(steps, S, n) ==
    IF n = 0 THEN S
    ELSE DependsOnClosure(steps,
            S \cup UNION {steps[i].DependsOn : i \in {j \in 1..Len(steps) : steps[j].ID \in S}},
            n - 1)

\* the spec's invariants 1 and 2 of a pipeline: unique step ids, every
\* dependsOn names a step, no cycle
ValidPipeline(steps) ==
    /\ \A i, j \in 1..Len(steps) : steps[i].ID = steps[j].ID => i = j
    /\ \A i \in 1..Len(steps) :
          /\ steps[i].DependsOn \subseteq {steps[j].ID : j \in 1..Len(steps)}
          /\ steps[i].ID \notin DependsOnClosure(steps, steps[i].DependsOn, Len(steps))

\* the runs that have returned from ExecutePipeline with a pipeline status
TerminalRuns == {r \in RunIds : runs[r].pc = "done" /\ runs[r].status # ""}

TerminalStepStatus == {"success", "failed", "skipped", "cancelled"}

\* C1: while a step's plugin runs, every step its DependsOn lists has
\* completed in the same run with a nil error.
C1_InvokedAfterDependencies ==
    \A p \in InFlight :
       \A dep \in StepOf(p[1], p[2]).DependsOn :
          /\ dep \in DOMAIN runs[p[1]].stepResults
          /\ runs[p[1]].stepResults[dep] = "nil"

\* C2: once a run of a valid pipeline is terminal and no other run is in
\* progress, every step status is terminal, and every step that depends,
\* directly or through other steps, on a failed step is "skipped".
C2_TerminalRunHasTerminalSteps ==
    \A r \in TerminalRuns :
       LET steps == pipelines[runs[r].pl].Steps
           failed == {id \in DOMAIN runs[r].stepResults : runs[r].stepResults[id] # "nil"}
       IN (ValidPipeline(steps) /\ \A q \in RunIds : runs[q].pc \in {"none", "done"})
          => \A i \in 1..Len(steps) :
                /\ steps[i].Status \in TerminalStepStatus
                /\ DependsOnClosure(steps, steps[i].DependsOn, Len(steps)) \cap failed # {}
                      => steps[i].Status = "skipped"

\* C3: a terminal run of a valid pipeline is "failed" if a step failed,
\* else "cancelled" if its cancellation was requested, else "success"; and
\* it is "success" only if every step ended with a nil error.
C3_RunStatus ==
    \A r \in TerminalRuns :
       LET steps == pipelines[runs[r].pl].Steps
           res == runs[r].stepResults
           anyFailed == \E id \in DOMAIN res : res[id] # "nil"
       IN ValidPipeline(steps) =>
             /\ runs[r].status = (IF anyFailed THEN "failed"
                                  ELSE IF runs[r].cancelled THEN "cancelled"
                                  ELSE "success")
             /\ runs[r].status = "success" =>
                   \A i \in 1..Len(steps) :
                      steps[i].ID \in DOMAIN res /\ res[steps[i].ID] = "nil"

\* C4: for every cache key, at most one plugin execution of a step with a
\* cache configuration is in progress at a time, over all runs.
C4_SingleFlight ==
    \A p, q \in InFlight :
       (/\ StepOf(p[1], p[2]).Cache
        /\ StepOf(q[1], q[2]).Cache
        /\ CacheKey(runs[p[1]].pl, p[2]) = CacheKey(runs[q[1]].pl, q[2]))
       => p = q

\* C5: when a step with a cache configuration has ended with status
\* success, its cache key is in the cache.
C5_SuccessIsCached ==
    \A p \in Goroutines :
       LET g == runs[p[1]].gor[p[2]]
       IN (g.pc = "done" /\ g.idx # 0 /\ g.err = "nil" /\ StepOf(p[1], p[2]).Cache)
          => CacheKey(runs[p[1]].pl, p[2]) \in cache

\* the attempts a goroutine has started
Attempts(g) == Len(g.outcomes) + (IF g.pc = "plugin" THEN 1 ELSE 0)

C7_NoRetryOfUnknownOrCancelled ==
    /\ \A p \in Goroutines :
          LET g == runs[p[1]].gor[p[2]]
          IN \A i \in 1..Len(g.outcomes) :
                g.outcomes[i] \in {"unknown_type", "cancelled"} =>
                   i = Len(g.outcomes) /\ g.pc \in {"complete", "done"}
    /\ \A ev \in BagToSet(emitted) :
          ev.Type = "STEP_RETRY" => ev.Data.error \notin {"unknown_type", "cancelled"}

\* C8: once the context of a run is cancelled, no further step of the run
\* is dispatched (no goroutine is started for a step not yet dispatched).
C8_NoDispatchAfterCancel ==
    [][\A r \in RunIds :
          runs[r].cancelled => DOMAIN runs'[r].gor \subseteq DOMAIN runs[r].gor]_vars

\* C9: at most WorkerPoolSize plugin executions are in progress at a time.
C9_BoundedPool == Cardinality(InFlight) <= WorkerPoolSize

\* C10: a listener that is called with both the STEP_STARTED and the
\* STEP_COMPLETED event of a step of a run is called with STEP_STARTED first.
C10_StartedBeforeCompleted ==
    \A l \in 1..MaxListeners :
       \A i, j \in 1..Len(seen[l]) :
          (/\ seen[l][i].Type = "STEP_STARTED"
           /\ seen[l][j].Type = "STEP_COMPLETED"
           /\ seen[l][i].Step = seen[l][j].Step
           /\ seen[l][i].run = seen[l][j].run)
          => i < j

\* ------------------------------------------------- claims: the listeners
\* whether the select of emitEvent finds the channel ready: a buffer that
\* is not full, or no buffer and a receiver waiting
HasRoom(ch) ==
    \/ ch.cap > 0 /\ Len(ch.q) < ch.cap
    \/ ch.cap = 0 /\ ch.writer = "recv"

\* the channel of connection c took the event in this step
Takes(c, event) ==
    IF conns[c].cap = 0
    THEN conns'[c].cur = << event >>
    ELSE conns'[c].q = Append(conns[c].q, event)

\* C11: emitEvent never waits for a subscriber.  In every step that emits an
\* event, a registered channel that is full (or has no buffer and no receiver
\* ready) drops the event and keeps its queued events as they were, and
\* every other registered channel receives the event.
C11_NonBlockingEmit ==
    [][sent' # << >> =>
          \A c \in Registered :
              IF HasRoom(conns[c])
              THEN Takes(c, sent'[1])
              ELSE /\ conns'[c].q = conns[c].q
                   /\ conns'[c].cur = conns[c].cur
                   /\ conns'[c].writer = conns[c].writer]_vars

\* the last step emitted an event that one registered channel, being full,
\* dropped and another registered channel received
C11_Witness ==
    /\ sent # << >>
    /\ \E c1, c2 \in Registered :
          /\ conns[c1].cap > 0
          /\ Len(conns[c1].q) = conns[c1].cap
          /\ conns[c1].q[Len(conns[c1].q)] # sent[1]
          /\ \/ conns[c2].cap = 0 /\ conns[c2].cur = sent
             \/ /\ conns[c2].cap > 0
                /\ conns[c2].q # << >>
                /\ conns[c2].q[Len(conns[c2].q)] = sent[1]

\* C12: a registration under an id that is already registered is rejected
\* and the existing subscription stays: every connection whose handler has
\* not unregistered it is still the listener registered under its id.
C12_SubscriptionIntact ==
    \A c \in ConnIds :
        conns[c].pc = "open" =>
            /\ conns[c].id \in DOMAIN listeners
            /\ listeners[conns[c].id] = c

\* C13: unsubscribing closes the sink: the channel of a connection whose
\* handler has unregistered it is closed, which is what ends the range loop
\* of its consumer.
C13_UnsubscribeClosesSink ==
    \A c \in ConnIds : conns[c].pc = "closed" => conns[c].closed

\* ----------------------------------------------------- claims: the store
\* the steps of a pipeline of the job engine, as << stage, position >>
StepPlaces(p) ==
    UNION {{<< i, j >> : j \in DOMAIN p.Stages[i].Steps} : i \in DOMAIN p.Stages}

StepAt(p, place) == p.Stages[place[1]].Steps[place[2]]

StageIdsOf(p) == {p.Stages[i].ID : i \in DOMAIN p.Stages}

StepIdsOf(p) == {StepAt(p, place).ID : place \in StepPlaces(p)}

\* the combined dependency graph: stage needs and step dependsOn
DependencyEdges(p) ==
    UNION ({{<< p.Stages[i].ID, n >> : n \in p.Stages[i].Needs} :
                i \in DOMAIN p.Stages}
           \cup
           {{<< StepAt(p, place).ID, d >> : d \in StepAt(p, place).DependsOn} :
                place \in StepPlaces(p)})

RECURSIVE TransitiveClosure(_)
TransitiveClosure(edges) ==
    LET joined == {pair \in edges \X edges : pair[1][2] = pair[2][1]}
        more == edges \cup {<< pair[1][1], pair[2][2] >> : pair \in joined}
    IN IF more = edges THEN edges ELSE TransitiveClosure(more)

\* validation as the claim states it
CoreValidPipeline(p) ==
    /\ Cardinality(StepPlaces(p)) = Cardinality(StepIdsOf(p))
    /\ \A i \in DOMAIN p.Stages : p.Stages[i].Needs \subseteq StageIdsOf(p)
    /\ \A place \in StepPlaces(p) :
          StepAt(p, place).DependsOn \subseteq StepIdsOf(p)
    /\ \A e \in TransitiveClosure(DependencyEdges(p)) : e[1] # e[2]

\* C14: every pipeline held in the store has passed validation: unique step
\* ids, every dependsOn and every stage needs names an existing id, and the
\* combined dependency graph has no cycle.
C14_StoredPipelinesValid ==
    \A id \in DOMAIN cpipelines : CoreValidPipeline(cpipelines[id])

\* the jobs map as a reader sees it: id -> the fields of the Job
JobsView == [id \in DOMAIN jobs |-> jobObjs[jobs[id]].job]

\* the methods of the claim that return an error
FallibleOps ==
    {"CreatePipeline", "DeletePipeline", "ExecutePipeline", "RetryJob", "UpdateJob"}

\* C15: a call of CreatePipeline, DeletePipeline, ExecutePipeline, RetryJob
\* or UpdateJob that returns an error leaves the pipelines map and the jobs
\* map exactly as they were and emits no event.
C15_ErrorsLeaveNoTrace ==
    [][(ret'.op \in FallibleOps /\ ret'.err # "nil") =>
          /\ cpipelines' = cpipelines
          /\ jobs' = jobs
          /\ JobsView' = JobsView
          /\ sent' = << >>
          /\ conns' = conns]_vars

\* a CreatePipeline with the id of a stored pipeline has just returned its
\* error, with a job registered
C15_Witness ==
    /\ ret = Ret("CreatePipeline", "exists")
    /\ cpipelines # << >>
    /\ jobs # << >>

\* the pipelines with a run whose status is not terminal
InUse ==
    {JobsView[id].PipelineID :
        id \in {j \in DOMAIN jobs : JobsView[j].Status \notin {"success", "failed"}}}

\* C17: DeletePipeline is rejected while a run of the pipeline is not
\* terminal: no step removes a pipeline that is in use from the store.
C17_NoDeleteWhileInUse ==
    [][\A id \in InUse : id \in DOMAIN cpipelines => id \in DOMAIN cpipelines']_vars

\* C18: an update preserves the creation time: when the PUT handler's
\* CreatePipeline succeeds, the stored pipeline has the CreatedAt that the
\* handler read from the pipeline before the update.
C18_UpdateKeepsCreatedAt ==
    [][(upd.pc = "create" /\ upd'.pc = "done" /\ upd'.err = "nil") =>
          /\ upd.body.ID \in DOMAIN cpipelines'
          /\ cpipelines'[upd.body.ID].CreatedAt = upd.existing]_vars

\* C19: a successful ExecutePipeline registers a run under an id that no
\* run of the registry has: one more run is retrievable and every run that
\* was retrievable is the same run as before.
C19_FreshRunId ==
    [][(ret'.op = "ExecutePipeline" /\ ret'.err = "nil") =>
          /\ Cardinality(DOMAIN jobs') = Cardinality(DOMAIN jobs) + 1
          /\ \A id \in DOMAIN jobs : id \in DOMAIN jobs' /\ jobs'[id] = jobs[id]]_vars

\* C20: a successful RetryJob registers a new run whose retryOf is the id of
\* the original and leaves the original untouched: the original is still
\* retrievable under its id, with the fields it had.
C20_RetryLeavesOriginal ==
    [][\A k \in Callers :
          (calls[k].op = "RetryJob" /\ calls[k].pc = "register"
                /\ calls'[k].pc = "idle") =>
              LET original == calls[k].job
              IN /\ original \in DOMAIN jobs'
                 /\ JobsView'[original] = JobsView[original]
                 /\ \E id \in (DOMAIN jobs') \ {original} :
                       JobsView'[id].Metadata.retryOf = original]_vars

\* ------------------------------------------- claims: the scheduler's events
\* the events emitted by the step being taken
NewEvents == emitted' (-) emitted

\* the steps, as << pipeline, position >>, whose status the step being taken
\* changes
ChangedSteps ==
    {place \in UNION {{<< pl, i >> : i \in DOMAIN pipelines[pl].Steps} :
                          pl \in DOMAIN pipelines} :
        pipelines'[place[1]].Steps[place[2]].Status
            # pipelines[place[1]].Steps[place[2]].Status}

\* the event announces the status: running with STEP_STARTED, success or
\* failed with STEP_COMPLETED
Announces(ev, status) ==
    \/ ev.Type = "STEP_STARTED" /\ status = "running"
    \/ ev.Type = "STEP_COMPLETED" /\ status \in {"success", "failed"}

Gets(c) ==
    \/ Len(conns'[c].q) > Len(conns[c].q)
    \/ conns[c].cap = 0 /\ conns'[c].cur # << >> /\ conns'[c].cur # conns[c].cur

\* C27: once UnregisterEventListener(id) has returned, no event is sent on
\* the channel that was registered under id, also while emitEvent calls are
\* in progress: a channel that pe.eventListeners does not hold takes no event.
C27_NoSendAfterUnregister ==
    [][\A c \in ConnIds : c \notin Registered => ~Gets(c)]_vars

\* a handler has returned and unregistered its empty channel, and an
\* emitEvent call that is inside its loop has delivered its event to the
\* channel of another connection
C27_Witness ==
    \E c, d \in ConnIds, e \in Emitters :
        /\ conns[c].pc = "closed"
        /\ conns[c].cap > 0
        /\ conns[c].q = << >>
        /\ emits[e].pc = "sending"
        /\ d \in Registered
        /\ d \notin emits[e].todo
        /\ conns[d].q = emits[e].event

\* ------------------------------------------------- claims: the job registry
Terminal == {"success", "failed"}

\* C21: a run reaches a terminal status once: after GetJob reports a run id
\* as success or failed, no operation (the goroutine of the run,
\* ExecutePipeline, RetryJob, AddJob, UpdateJob) makes that run id report
\* another status.
C21_TerminalStatusIsFinal ==
    [][\A id \in DOMAIN jobs :
          JobsView[id].Status \in Terminal =>
              /\ id \in DOMAIN jobs'
              /\ JobsView'[id].Status = JobsView[id].Status]_vars

\* no call is between its lookup and its registration, no goroutine of a
\* run is still to write its result
Quiescent ==
    /\ \A k \in Callers : calls[k].pc = "idle"
    /\ \A o \in DOMAIN jobObjs : jobObjs[o].gor # "sleeping"

\* C22: every run that ExecutePipeline or RetryJob started ends up reported
\* by GetJob with a terminal status and an EndedAt, also when UpdateJob is
\* applied with a copy taken earlier: once every goroutine has written its
\* result, the registry reports each of these runs as ended.
C22_FinishedRunsReported ==
    Quiescent =>
        \A o \in DOMAIN jobObjs :
            jobObjs[o].gor = "done" =>
                /\ jobObjs[o].job.ID \in DOMAIN jobs
                /\ JobsView[jobObjs[o].job.ID].Status \in Terminal
                /\ JobsView[jobObjs[o].job.ID].EndedAt # ZeroTime

\* C28: ExecutePipeline and RetryJob register a run, and emit job.started,
\* only for a pipeline that the store holds at that moment, whatever
\* DeletePipeline calls run meanwhile.
C28_RunOnlyForStoredPipeline ==
    [][\A k \in Callers :
          calls[k].pc = "register" /\ calls'[k].pc = "idle" =>
              calls[k].pl \in DOMAIN cpipelines]_vars

\* C29: the update of PUT /pipelines/:id is atomic: while it is under way no
\* GetPipeline reports the pipeline as not found, so the store holds a
\* pipeline under that id when the update is about to store the new one.
C29_UpdateNeverLosesPipeline ==
    upd.pc = "create" => upd.body.ID \in DOMAIN cpipelines

\* ------------------------------------------------ claims: the step scheduler
\* the attempt of the goroutine of step id in run r ends in this step with
\* "unknown step type"
UnknownTypeReturned(r, id) ==
    /\ id \in DOMAIN runs[r].gor
    /\ runs[r].gor[id].pc = "exec"
    /\ runs'[r].gor[id].outcomes = Append(runs[r].gor[id].outcomes, "unknown_type")

\* C23: a step whose type is among the StepTypes of the manifest of a
\* registered plugin is executed by that plugin: an attempt ends with
\* "unknown step type" only if no registered plugin declares the type.
C23_DeclaredTypeIsExecuted ==
    [][\A r \in RunIds, id \in StepIds :
          UnknownTypeReturned(r, id) =>
              \A name \in plugins : StepOf(r, id).Type \notin StepTypes(name)]_vars

\* C24: every CreatePipeline call returns with the engine lock released:
\* after a CreatePipeline call has stored its pipeline, e.mu is free for
\* GetPipeline, ExecutePipeline and AddEventListener.
C24_CreateReleasesLock ==
    creates > 0 => mu = "free"

C26_DispatchNotDelayed ==
    \A r \in RunIds :
        runs[r].pc = "wait" =>
            \A id \in (DOMAIN runs[r].graph) \ runs[r].ready :
                ~ /\ runs[r].graph[id] # {}
                  /\ \A dep \in runs[r].graph[id] :
                        /\ dep \in DOMAIN runs[r].stepResults
                        /\ runs[r].stepResults[dep] = "nil"
                  /\ \E other \in runs[r].ready \ runs[r].graph[id] :
                        runs[r].gor[other].pc # "done"

\* C30: within one run of the scheduler a step id is dispatched at most
\* once: the ids of a wave are ids for which the run has started no
\* goroutine before.
C30_DispatchedOnce ==
    [][\A r \in RunIds :
          runs[r].pc = "loop" /\ runs'[r].pc = "wait" =>
              runs[r].ready \cap DOMAIN runs[r].gor = {}]_vars

\* a second wave is under way: its steps are dispatched and the steps of
\* the first wave are not among them
C30_Witness ==
    \E r \in RunIds :
        /\ runs[r].pc = "wait"
        /\ runs[r].ready # {}
        /\ (DOMAIN runs[r].gor) \ runs[r].ready # {}
        /\ \A id \in runs[r].ready : runs[r].gor[id].pc # "done"
====
